---- MODULE Spec2Model ----
(***************************************************************************)
(* Shrdlite: the command interpreter (src/Interpreter.ts), the planner's   *)
(* world graph, goal test and heuristics (src/unnamed/part_001) and the    *)
(* A* engine (src/AStarSearch.ts), as state machines.                      *)
(*                                                                         *)
(* JavaScript values are encoded as follows.  A value that may be null     *)
(* (world.holding, the result of neighbor) is a sequence: <<>> is null and *)
(* <<v>> is the value v.  A null size or colour of a SimpleObject is the   *)
(* string NULL.  An array is a sequence (1-based here, 0-based in the      *)
(* code: row and column numbers keep the code's 0-based values).           *)
(***************************************************************************)
EXTENDS Integers, Sequences, FiniteSets, TLC

VARIABLES
    world,   \* WorldState: [arm, holding, stacks]
    intp,    \* the DNFFormula handed to the planner
    srch,    \* the local variables of aStarSearch
    inp,     \* the arguments of the function a specification applies
    out,     \* what that function returned (or threw)
    pc       \* position: "start" before the call, "done" after it

vars == <<world, intp, srch, inp, out, pc>>

NULL == "null"
undefined == "undefined"
Idle == [idle |-> TRUE]

\* ------------------------------------------------------------------------
\* Types.ts
\* ------------------------------------------------------------------------

SimpleObject(form, size, color) ==
    [tag |-> "SimpleObject", form |-> form, size |-> size, color |-> color]

RelativeObject(object, location) ==
    [tag |-> "RelativeObject", object |-> object, location |-> location]

ComplexObject(object1, object2, operator) ==
    [tag |-> "ComplexObject", object1 |-> object1, object2 |-> object2, operator |-> operator]

Entity(quantifier, object) == [quantifier |-> quantifier, object |-> object]

Location(relation, entity) == [relation |-> relation, entity |-> entity]

TakeCommand(entity) == [tag |-> "TakeCommand", entity |-> entity]

DropCommand(location) == [tag |-> "DropCommand", location |-> location]

MoveCommand(entity, location) ==
    [tag |-> "MoveCommand", entity |-> entity, location |-> location]

Literal(relation, args) == [relation |-> relation, args |-> args, polarity |-> TRUE]

Relations == {"ontop", "inside", "above", "under", "leftof", "rightof", "beside"}

Quantifiers == {"the", "any", "all"}

\* The catalogue world.objects: the six objects of the tests' small world and
\* one object for each remaining form and size.
objects ==
    [ LargeWhiteBall |-> SimpleObject("ball", "large", "white"),
      SmallBlackBall |-> SimpleObject("ball", "small", "black"),
      LargeBlueTable |-> SimpleObject("table", "large", "blue"),
      LargeYellowBox |-> SimpleObject("box", "large", "yellow"),
      LargeRedBox    |-> SimpleObject("box", "large", "red"),
      SmallBlueBox   |-> SimpleObject("box", "small", "blue"),
      LrgGrnBrck1    |-> SimpleObject("brick", "large", "green"),
      LrgGrnBrck2    |-> SimpleObject("brick", "large", "green"),
      SmlWhtBrck     |-> SimpleObject("brick", "small", "white"),
      LrgRedPlnk     |-> SimpleObject("plank", "large", "red"),
      SmlGrnPlnk     |-> SimpleObject("plank", "small", "green"),
      LrgYlwPrmd     |-> SimpleObject("pyramid", "large", "yellow"),
      SmlRedPrmd     |-> SimpleObject("pyramid", "small", "red"),
      SmlRedTble     |-> SimpleObject("table", "small", "red") ]

ObjectIds == DOMAIN objects

\* ------------------------------------------------------------------------
\* Physical laws: Interpreter.validate and the planner's isValidDrop
\* ------------------------------------------------------------------------

memberOf(needle, haystack) == \E i \in DOMAIN haystack : haystack[i] = needle

floorObject == SimpleObject("floor", NULL, NULL)

\* The error message of validate, or undefined when no law is violated.
validate(rel, obj1, obj2) ==
    LET a == IF obj1 = "floor" THEN floorObject ELSE objects[obj1]
        b == IF obj2 = "floor" THEN floorObject ELSE objects[obj2]
    IN  IF a.form = "floor"
        THEN "I cannot take the floor"
        ELSE IF b.form = "floor"
                /\ memberOf(rel, <<"under", "leftof", "rightof", "beside", "inside">>)
        THEN "Nothing can be " \o rel \o " the floor."
        ELSE IF a.form = "ball" /\ b.form # "floor" /\ rel = "ontop"
        THEN "A ball can only be ontop the floor"
        ELSE IF a.form = "ball" /\ rel = "under"
        THEN "A ball cannot be under anything"
        ELSE IF b.form = "ball" /\ memberOf(rel, <<"ontop", "above">>)
        THEN "Nothing can be " \o rel \o " a ball"
        ELSE IF b.form # "box" /\ rel = "inside"
        THEN "Nothing can be inside a " \o b.form
        ELSE IF b.form = "box" /\ rel = "ontop"
        THEN "Nothing can be ontop a box"
        ELSE IF /\ memberOf(a.form, <<"pyramid", "plank", "box">>)
                /\ b.form = "box" /\ rel = "inside"
                /\ a.size = b.size
        THEN "A " \o a.form \o " cannot be inside a box of the same size"
        ELSE IF /\ a.form = "box" /\ memberOf(b.form, <<"pyramid", "brick">>)
                /\ rel = "ontop"
                /\ a.size = "small" /\ b.size = "small"
        THEN "A small box cannot be ontop a small " \o b.form
        \* this test is not inside the if (a.form == "box" ...) above: the
        \* if has no braces and takes only the statement that follows it
        ELSE IF a.size = "large" /\ b.size = "large" /\ b.form = "pyramid"
        THEN "A large box cannot be ontop a large pyramid"
        ELSE IF memberOf(rel, <<"inside", "ontop">>)
                /\ a.size = "large" /\ b.size = "small"
        THEN "A large object cannot be " \o rel \o " a small one"
        ELSE IF obj1 = obj2
        THEN "Nothing can be " \o rel \o " itself"
        ELSE undefined

isValidDrop(objA, objB) ==
    IF objB.form = "floor" THEN TRUE
    ELSE IF objB.form = "ball" THEN FALSE
    ELSE IF objA.form = "ball" /\ objB.form # "box" THEN FALSE
    ELSE IF /\ memberOf(objA.form, <<"pyramid", "plank", "box">>)
            /\ objB.form = "box" /\ objA.size = objB.size THEN FALSE
    ELSE IF objA.size = "large" /\ objB.size = "small" THEN FALSE
    ELSE IF objA.form = "box" /\ memberOf(objB.form, <<"pyramid", "brick">>)
    THEN IF objA.size = "small" /\ objB.size = "small" THEN FALSE
         ELSE IF objA.size = "large" /\ objB.size = "large" /\ objB.form = "pyramid"
         THEN FALSE
         ELSE TRUE
    ELSE TRUE

\* ------------------------------------------------------------------------
\* The world graph: ShrdliteNode.neighbor and ShrdliteGraph.successors
\* ------------------------------------------------------------------------

WorldState(arm, holding, stacks) == [arm |-> arm, holding |-> holding, stacks |-> stacks]

\* A pick that forgets the splice: the stack keeps the object picked
keepAll(s) == s

\* array.splice(ypos, 1) with ypos the last index
RemoveLast(s) == SubSeq(s, 1, Len(s) - 1)

\* The next node for an action, <<>> (null) when the action is not possible.
\* xpos and ypos are 0-based as in the code; stacks[xpos + 1] is the code's
\* stacks[xpos].  One operator for each branch of neighbor.
armLeft(state) ==
    IF state.arm - 1 < 0 THEN <<>>
    ELSE <<[state EXCEPT !.arm = state.arm - 1]>>

\* An arm that goes round from the last column to the first
armRightAround(state) ==
    <<[state EXCEPT !.arm = (state.arm + 1) % Len(state.stacks)]>>

armRight(state) ==
    IF state.arm + 1 >= Len(state.stacks) THEN <<>>
    ELSE <<[state EXCEPT !.arm = state.arm + 1]>>

pick(state) ==
    LET xpos == state.arm
        stack == state.stacks[xpos + 1]
        ypos == Len(stack) - 1
    IN  IF state.holding # <<>> \/ ypos < 0 THEN <<>>
        ELSE <<[state EXCEPT !.holding = <<stack[ypos + 1]>>,
                             !.stacks[xpos + 1] = RemoveLast(stack)]>>

\* A drop that does not ask isValidDrop
dropUnchecked(state) ==
    <<[state EXCEPT !.holding = <<>>,
                    !.stacks[state.arm + 1] = Append(@, state.holding[1])]>>

\* A drop that asks isValidDrop about the floor whatever the stack holds
dropAsOnFloor(state) ==
    IF ~isValidDrop(objects[state.holding[1]], floorObject) THEN <<>>
    ELSE <<[state EXCEPT !.holding = <<>>,
                         !.stacks[state.arm + 1] = Append(@, state.holding[1])]>>

drop(state) ==
    LET xpos == state.arm
        stack == state.stacks[xpos + 1]
        ypos == Len(stack) - 1
        objA == objects[state.holding[1]]
        objB == IF ypos < 0 THEN floorObject ELSE objects[stack[ypos + 1]]
    IN  IF ~isValidDrop(objA, objB) THEN <<>>
        ELSE <<[state EXCEPT !.holding = <<>>,
                             !.stacks[xpos + 1] = Append(stack, state.holding[1])]>>

neighbor(state, action) ==
    IF action = "l" THEN armLeft(state)
    ELSE IF action = "r" THEN armRight(state)
    ELSE IF action = "p" THEN pick(state)
    ELSE IF action = "d" /\ state.holding # <<>> THEN drop(state)
    ELSE <<>>

Actions == <<"l", "r", "p", "d">>

\* The Successor records of a node, in the order of the code's forEach.
successors(current) ==
    LET edge(action) ==
            LET next == neighbor(current, action)
            IN  IF next # <<>>
                THEN <<[action |-> action, child |-> next[1], cost |-> 1]>>
                ELSE <<>>
    IN  edge("l") \o edge("r") \o edge("p") \o edge("d")

\* ------------------------------------------------------------------------
\* Goal test: coordinate, isValidUnaryRelation, isValidBinaryRelation, goalTest
\* ------------------------------------------------------------------------

\* array.indexOf(obj): the first 0-based index of obj, -1 when absent
indexOf(arr, obj) ==
    IF \E j \in DOMAIN arr : arr[j] = obj
    THEN (CHOOSE j \in DOMAIN arr :
              arr[j] = obj /\ \A k \in DOMAIN arr : arr[k] = obj => j <= k) - 1
    ELSE -1

\* <<[x, y]>>, or <<>> (null) when the object is not on the stacks
coordinate(obj, state) ==
    IF obj = "floor" THEN <<[x |-> -1, y |-> -1]>>
    ELSE LET cols == {i \in DOMAIN state.stacks : indexOf(state.stacks[i], obj) > -1}
         IN  IF cols = {} THEN <<>>
             ELSE LET i == CHOOSE c \in cols : \A d \in cols : c <= d
                  IN  <<[x |-> i - 1, y |-> indexOf(state.stacks[i], obj)]>>

isValidUnaryRelation(lit, state) ==
    lit.relation = "holding" /\ state.holding = <<lit.args[1]>>

Abs(n) == IF n < 0 THEN -n ELSE n

isValidBinaryRelation(lit, state) ==
    LET cA == coordinate(lit.args[1], state)
        cB == coordinate(lit.args[2], state)
    IN  IF cA = <<>> \/ cB = <<>> THEN FALSE
        ELSE LET coorA == cA[1]
                 coorB == cB[1]
             IN  IF lit.args[2] = "floor" \/ coorA.x = coorB.x
                 THEN \/ lit.relation = "ontop"  /\ coorA.y = coorB.y + 1
                      \/ lit.relation = "inside" /\ coorA.y = coorB.y + 1
                      \/ lit.relation = "above"  /\ coorA.y > coorB.y
                      \/ lit.relation = "under"  /\ coorA.y < coorB.y
                 ELSE \/ lit.relation = "beside"  /\ Abs(coorA.x - coorB.x) = 1
                      \/ lit.relation = "leftof"  /\ coorA.x < coorB.x
                      \/ lit.relation = "rightof" /\ coorA.x > coorB.x

isTrueLit(lit, state) ==
    IF Len(lit.args) = 1 THEN isValidUnaryRelation(lit, state)
    ELSE IF Len(lit.args) = 2 THEN isValidBinaryRelation(lit, state)
    ELSE FALSE

isTrueConjSome(conj, state) == \E i \in DOMAIN conj : isTrueLit(conj[i], state)

isTrueConj(conj, state) == \A i \in DOMAIN conj : isTrueLit(conj[i], state)

\* goalTest(intp)(node)
goalTest(dnf, state) == \E i \in DOMAIN dnf : isTrueConj(dnf[i], state)

\* ------------------------------------------------------------------------
\* Heuristics
\* ------------------------------------------------------------------------

\* Math.min() of no argument is Infinity and Math.max() is -Infinity
Infinity == 1000000

Min2(a, b) == IF a < b THEN a ELSE b
Max2(a, b) == IF a > b THEN a ELSE b

MathMin(S) == IF S = {} THEN Infinity ELSE CHOOSE m \in S : \A n \in S : m <= n
MathMax(S) == IF S = {} THEN -Infinity ELSE CHOOSE m \in S : \A n \in S : m >= n

\* state.stacks[coor.x].length - coor.y - 1: the number of objects on top
onTop(state, coor) == Len(state.stacks[coor.x + 1]) - coor.y - 1

h_holding(lit, state) ==
    LET coor == coordinate(lit.args[1], state)
    IN  IF coor # <<>>
        THEN 4 * onTop(state, coor[1]) + Abs(state.arm - coor[1].x) + 1
        ELSE 0

h_left(lit, state) ==
    LET cA == coordinate(lit.args[1], state)
        cB == coordinate(lit.args[2], state)
    IN  IF cA # <<>> /\ cB # <<>>
        THEN LET coorA == cA[1]
                 coorB == cB[1]
                 dAB == Abs(coorA.x - coorB.x)
                 dR == Min2(Abs(state.arm - coorA.x), Abs(state.arm - coorB.x))
                 nA == onTop(state, coorA)
                 nB == onTop(state, coorB)
             IN  4 * Min2(nA, nB) + dR + dAB + 3
        ELSE IF cA # <<>>
        THEN LET dRA == state.arm - cA[1].x
             IN  IF dRA > 0 THEN 1 ELSE -dRA + 2
        ELSE IF cB # <<>>
        THEN LET dRB == state.arm - cB[1].x
             IN  IF dRB < 0 THEN 1 ELSE dRB + 2
        ELSE 0

h_right(lit, state) ==
    LET cA == coordinate(lit.args[1], state)
        cB == coordinate(lit.args[2], state)
    IN  IF cA # <<>> /\ cB # <<>>
        THEN LET coorA == cA[1]
                 coorB == cB[1]
                 dAB == Abs(coorA.x - coorB.x)
                 dR == Min2(Abs(state.arm - coorA.x), Abs(state.arm - coorB.x))
                 nA == onTop(state, coorA)
                 nB == onTop(state, coorB)
             IN  4 * Min2(nA, nB) + dR + dAB + 3
        ELSE IF cA # <<>>
        THEN LET dRA == state.arm - cA[1].x
             IN  IF dRA < 0 THEN 1 ELSE dRA + 2
        ELSE IF cB # <<>>
        THEN LET dRB == state.arm - cB[1].x
             IN  IF dRB > 0 THEN 1 ELSE -dRB + 2
        ELSE 0

h_beside(lit, state) ==
    LET cA == coordinate(lit.args[1], state)
        cB == coordinate(lit.args[2], state)
    IN  IF cA # <<>> /\ cB # <<>>
        THEN LET coorA == cA[1]
                 coorB == cB[1]
                 dAB == Abs(coorA.x - coorB.x)
                 dR == Min2(Abs(state.arm - coorA.x), Abs(state.arm - coorB.x))
                 nA == onTop(state, coorA)
                 nB == onTop(state, coorB)
             IN  IF coorA.x = coorB.x THEN 4 * Min2(nA, nB) + dR + 3
                 ELSE 4 * Min2(nA, nB) + dR + dAB + 1
        ELSE IF cA # <<>> THEN Abs(state.arm - cA[1].x)
        ELSE IF cB # <<>> THEN Abs(state.arm - cB[1].x)
        ELSE 0

h_inside(lit, state) ==
    LET cA == coordinate(lit.args[1], state)
        cB == coordinate(lit.args[2], state)
    IN  IF cA # <<>> /\ cB # <<>>
        THEN LET coorA == cA[1]
                 coorB == cB[1]
                 dAB == Abs(coorA.x - coorB.x)
                 dR == Min2(Abs(state.arm - coorA.x), Abs(state.arm - coorB.x))
                 nA == onTop(state, coorA)
                 nB == onTop(state, coorB)
             IN  IF coorA.x = coorB.x THEN 4 * Max2(nA, nB) + dR + 3
                 ELSE 4 * (nA + nB) + dR + dAB + 2
        ELSE IF cA # <<>>
        THEN 4 * onTop(state, cA[1]) + Abs(state.arm - cA[1].x) + 4
        ELSE IF cB # <<>>
        THEN 4 * onTop(state, cB[1]) + Abs(state.arm - cB[1].x) + 1
        ELSE 0

h_ontop(lit, state) ==
    LET cA == coordinate(lit.args[1], state)
        cB == coordinate(lit.args[2], state)
    IN  IF cA # <<>> /\ cB # <<>>
        THEN LET coorA == cA[1]
                 coorB == cB[1]
                 dAB == Abs(coorA.x - coorB.x)
                 dR == Min2(Abs(state.arm - coorA.x), Abs(state.arm - coorB.x))
                 nA == onTop(state, coorA)
             IN  IF lit.args[2] = "floor"
                 THEN 4 * nA + Abs(state.arm - coorA.x) + 3
                 ELSE LET nB == onTop(state, coorB)
                      IN  IF coorA.x = coorB.x THEN 4 * Max2(nA, nB) + dR + 3
                          ELSE 4 * (nA + nB) + dR + dAB + 2
        ELSE IF cA # <<>>
        THEN 4 * onTop(state, cA[1]) + Abs(state.arm - cA[1].x) + 4
        ELSE IF cB # <<>>
        THEN IF lit.args[2] = "floor" THEN 1
             ELSE 4 * onTop(state, cB[1]) + Abs(state.arm - cB[1].x) + 1
        ELSE 0

h_above(lit, state) ==
    LET cA == coordinate(lit.args[1], state)
        cB == coordinate(lit.args[2], state)
    IN  IF cA # <<>> /\ cB # <<>>
        THEN LET coorA == cA[1]
                 coorB == cB[1]
                 dAB == Abs(coorA.x - coorB.x)
                 dRA == Abs(state.arm - coorA.x)
                 nA == onTop(state, coorA)
             IN  IF lit.args[2] = "floor" THEN 0
                 ELSE 4 * nA + dAB + dRA + 3
        ELSE IF cA # <<>>
        THEN 4 * onTop(state, cA[1]) + Abs(state.arm - cA[1].x) + 4
        ELSE IF cB # <<>>
        THEN IF lit.args[2] = "floor" THEN 1
             ELSE Abs(state.arm - cB[1].x) + 1
        ELSE 0

h_under(lit, state) ==
    LET cA == coordinate(lit.args[1], state)
        cB == coordinate(lit.args[2], state)
    IN  IF cA # <<>> /\ cB # <<>>
        THEN LET coorA == cA[1]
                 coorB == cB[1]
                 dAB == Abs(coorA.x - coorB.x)
                 dRB == Abs(state.arm - coorB.x)
                 nB == onTop(state, coorB)
             IN  4 * nB + dAB + dRB + 3
        ELSE IF cA # <<>> THEN Abs(state.arm - cA[1].x) + 1
        ELSE IF cB # <<>>
        THEN 4 * onTop(state, cB[1]) + Abs(state.arm - cB[1].x) + 4
        ELSE 0

heurForLit(lit, state) ==
    IF lit.relation = "holding" THEN h_holding(lit, state)
    ELSE IF isValidBinaryRelation(lit, state) THEN 0
    ELSE IF lit.relation = "leftof" THEN h_left(lit, state)
    ELSE IF lit.relation = "rightof" THEN h_right(lit, state)
    ELSE IF lit.relation = "beside" THEN h_beside(lit, state)
    ELSE IF lit.relation = "inside" THEN h_inside(lit, state)
    ELSE IF lit.relation = "ontop" THEN h_ontop(lit, state)
    ELSE IF lit.relation = "above" THEN h_above(lit, state)
    ELSE IF lit.relation = "under" THEN h_under(lit, state)
    ELSE 0

heurForConj(conj, state) == MathMax({heurForLit(conj[i], state) : i \in DOMAIN conj})

\* heuristics(intp)(node)
heuristics(dnf, state) == MathMin({heurForConj(dnf[i], state) : i \in DOMAIN dnf})

\* ------------------------------------------------------------------------
\* Interpreter.ts: a call either returns a value or throws a message
\* ------------------------------------------------------------------------

Return(v) == [value |-> v]
Throw(msg) == [throw |-> msg]
IsThrow(r) == DOMAIN r = {"throw"}

\* array.join(sep) of an array of strings
RECURSIVE join(_, _)
join(arr, sep) ==
    IF arr = <<>> THEN ""
    ELSE IF Len(arr) = 1 THEN arr[1]
    ELSE arr[1] \o sep \o join(Tail(arr), sep)

\* The Set<string> errors after errors.add of every message in turn, as
\* errors.toArray(): each message once, in the order of its first add.
\* An array instead of the Set: every message added is kept
addEvery(added, msgs) == added \o msgs

RECURSIVE addAll(_, _)
addAll(added, msgs) ==
    IF msgs = <<>> THEN added
    ELSE addAll(IF memberOf(Head(msgs), added) THEN added ELSE Append(added, Head(msgs)),
                Tail(msgs))

\* The pairs <<a, b>> in the order of  xs.forEach(x => ys.forEach(y => ...)).
pairsOuterA(objectsA, objectsB) ==
    [k \in 1..(Len(objectsA) * Len(objectsB)) |->
        <<objectsA[((k - 1) \div Len(objectsB)) + 1], objectsB[((k - 1) % Len(objectsB)) + 1]>>]

\* The literals pushed and the errors added by the loop body
\*     let err = this.validate(rel, a, b).error;
\*     if (err) errors.add(err); else literals.push(new Literal(rel, [a, b]));
\* run over the given pairs.
\* A loop body that pushes the literal of every pair without validating it
pushedUnchecked(rel, pairs) == [i \in DOMAIN pairs |-> Literal(rel, pairs[i])]

\* A loop body that lets the pair of an object with itself through
pushedWithSelf(rel, pairs) ==
    LET ok == SelectSeq(pairs, LAMBDA p : validate(rel, p[1], p[2]) = undefined
                                          \/ p[1] = p[2])
    IN  [i \in DOMAIN ok |-> Literal(rel, ok[i])]

pushedLiterals(rel, pairs) ==
    LET ok == SelectSeq(pairs, LAMBDA p : validate(rel, p[1], p[2]) = undefined)
    IN  [i \in DOMAIN ok |-> Literal(rel, ok[i])]

addedErrors(rel, pairs) ==
    LET bad == SelectSeq(pairs, LAMBDA p : validate(rel, p[1], p[2]) # undefined)
    IN  [i \in DOMAIN bad |-> validate(rel, bad[i][1], bad[i][2])]

handleQuantifiers(objectsA, objectsB, quanA, quanB, rel) ==
    IF Len(objectsA) = 0 THEN Throw("Couldn't find any matching object")
    ELSE IF Len(objectsB) = 0 THEN Throw("Couldn't find any matching destination")
    ELSE IF quanA = "the" /\ Len(objectsA) > 1
    THEN Throw("Too many matching objects for \"the\" quantifier")
    ELSE IF quanB = "the" /\ Len(objectsB) > 1
    THEN Throw("Too many matching destinations for \"the\" quantifier")
    ELSE IF /\ memberOf(rel, <<"ontop", "inside">>)
            /\ quanB = "all" /\ Len(objectsB) > 1 /\ objectsB[1] # "floor"
    THEN Throw("Things can only be " \o rel \o " exactly one object")
    ELSE IF memberOf(rel, <<"ontop", "inside">>) /\ quanA = "all" /\ Len(objectsA) > 1
    THEN Throw("Only 1 thing can be " \o rel \o " another object")
    ELSE
    LET all == pairsOuterA(objectsA, objectsB)
        row(a) == [j \in DOMAIN objectsB |-> <<a, objectsB[j]>>]
        column(b) == [i \in DOMAIN objectsA |-> <<objectsA[i], b>>]
        conjunctions ==
            IF quanA = "all" /\ quanB = "all"
            THEN <<pushedLiterals(rel, all)>>
            ELSE IF quanA = "all"
            THEN [j \in DOMAIN objectsB |-> pushedLiterals(rel, column(objectsB[j]))]
            ELSE IF quanB = "all"
            THEN [i \in DOMAIN objectsA |-> pushedLiterals(rel, row(objectsA[i]))]
            ELSE LET lits == pushedLiterals(rel, all)
                 IN  [k \in DOMAIN lits |-> <<lits[k]>>]
        \* only its set of messages depends on the loop; the order of the
        \* adds is that of the pairs visited, b outermost when only quanA is all
        visited ==
            IF quanA = "all" /\ quanB # "all"
            THEN [k \in 1..(Len(objectsA) * Len(objectsB)) |->
                    <<objectsA[((k - 1) % Len(objectsA)) + 1],
                      objectsB[((k - 1) \div Len(objectsA)) + 1]>>]
            ELSE all
        errors == addAll(<<>>, addedErrors(rel, visited))
    IN  IF Len(conjunctions) = 0
        THEN Throw(join(errors, "; "))
        ELSE Return(conjunctions)

\* for (var key in items): the keys of world.objects in their order
objectKeys ==
    << "LargeWhiteBall", "SmallBlackBall", "LargeBlueTable", "LargeYellowBox",
       "LargeRedBox", "SmallBlueBox", "LrgGrnBrck1", "LrgGrnBrck2", "SmlWhtBrck",
       "LrgRedPlnk", "SmlGrnPlnk", "LrgYlwPrmd", "SmlRedPrmd", "SmlRedTble" >>

\* stackPositions / indexPositions: <<[x, y]>> for an item of the stacks,
\* <<>> (getValue returns undefined) for any other key, the floor included
stackPosition(key, w) ==
    LET cols == {i \in DOMAIN w.stacks : indexOf(w.stacks[i], key) > -1}
    IN  IF cols = {} THEN <<>>
        ELSE LET i == CHOOSE c \in cols : TRUE
             IN  <<[x |-> i - 1, y |-> indexOf(w.stacks[i], key)]>>

\* The body of the inner forEach reaches the switch for (key, locationKey),
\* with the positions it uses: <<[sK, iK, sL, iL]>>, or <<>> when it is skipped.
switchPositions(rel, key, locationKey, w) ==
    LET posKey == stackPosition(key, w)
        posLoc == stackPosition(locationKey, w)
    IN  IF validate(rel, key, locationKey) # undefined THEN <<>>
        ELSE IF posKey = <<>> THEN <<>>
        ELSE IF locationKey # "floor" /\ posLoc = <<>> THEN <<>>
        ELSE <<[sK |-> posKey[1].x, iK |-> posKey[1].y,
                sL |-> IF locationKey # "floor" THEN posLoc[1].x ELSE posKey[1].x,
                iL |-> IF locationKey # "floor" THEN posLoc[1].y ELSE -1]>>

\* The condition of the if in the switch's case for rel
\* A switch whose case ontop/inside accepts any higher row of the column
caseHoldsAnyRow(rel, p) ==
    IF rel \in {"ontop", "inside"} THEN p.sK = p.sL /\ p.iL < p.iK
    ELSE IF rel = "leftof" THEN p.sK < p.sL
    ELSE IF rel = "rightof" THEN p.sK > p.sL
    ELSE IF rel = "under" THEN p.sK = p.sL /\ p.iK < p.iL
    ELSE IF rel = "above" THEN p.sK = p.sL /\ p.iK > p.iL
    ELSE IF rel = "beside" THEN p.sK = p.sL - 1 \/ p.sK = p.sL + 1
    ELSE FALSE

caseHolds(rel, p) ==
    IF rel \in {"ontop", "inside"} THEN p.sK = p.sL /\ p.iL + 1 = p.iK
    ELSE IF rel = "leftof" THEN p.sK < p.sL
    ELSE IF rel = "rightof" THEN p.sK > p.sL
    ELSE IF rel = "under" THEN p.sK = p.sL /\ p.iK < p.iL
    ELSE IF rel = "above" THEN p.sK = p.sL /\ p.iK > p.iL
    ELSE IF rel = "beside" THEN p.sK = p.sL - 1 \/ p.sK = p.sL + 1
    ELSE FALSE

\* The keys a SimpleObject description matches, the floor last
simpleMatches(obj) ==
    LET size(x, y) == (x.size # NULL /\ x.size = y.size) \/ x.size = NULL
        color(x, y) == (x.color # NULL /\ x.color = y.color) \/ x.color = NULL
    IN  SelectSeq(objectKeys, LAMBDA key :
            \/ obj.form = "anyform" /\ size(obj, objects[key]) /\ color(obj, objects[key])
            \/ obj.form = objects[key].form /\ size(obj, objects[key])
                                            /\ color(obj, objects[key]))
        \o (IF obj.form = "floor" THEN <<"floor">> ELSE <<>>)

\* objects.forEach(key => location.entity.object.forEach(locationKey => ...))
\* for the keys objs, the location keys locs, its relation and quantifier
relativeMatches(objs, locs, rel, quan, w) ==
    LET found(key) ==
            \E j \in DOMAIN locs :
                LET p == switchPositions(rel, key, locs[j], w)
                IN  p # <<>> /\ caseHolds(rel, p[1])
        \* isValid is cleared by the else of every case but ontop/inside
        isValid(key) ==
            \A j \in DOMAIN locs :
                LET p == switchPositions(rel, key, locs[j], w)
                IN  p # <<>> /\ rel \in (Relations \ {"ontop", "inside"})
                        => caseHolds(rel, p[1])
        throws ==
            /\ quan = "all" /\ rel \in {"ontop", "inside"}
            /\ \E i \in DOMAIN objs : found(objs[i])
    IN  IF throws
        THEN Throw("Things can only be $(location.relation) exactly one object")
        ELSE Return(SelectSeq(objs, LAMBDA key :
                 IF quan = "all" THEN isValid(key)
                 ELSE quan \in {"any", "the"} /\ found(key)))

\* The RelativeObject branch once this.interpretObject(obj.object) and
\* this.interpretLocation(obj.location) have returned or thrown
relativeObject(objs, locs, rel, quan, w) ==
    IF IsThrow(objs) THEN objs
    ELSE IF IsThrow(locs) THEN locs
    ELSE relativeMatches(objs.value, locs.value, rel, quan, w)

\* if (result.length == 0) throw ...; return result
nonEmpty(result) ==
    IF IsThrow(result) THEN result
    ELSE IF Len(result.value) = 0 THEN Throw("Couldn't find any matching object")
    ELSE result

RECURSIVE interpretObject(_, _)
interpretObject(obj, w) ==
    nonEmpty(IF obj.tag = "SimpleObject"
             THEN Return(simpleMatches(obj))
             ELSE IF obj.tag = "RelativeObject"
             THEN relativeObject(interpretObject(obj.object, w),
                                 interpretObject(obj.location.entity.object, w),
                                 obj.location.relation, obj.location.entity.quantifier, w)
             ELSE Return(<<>>))

\* interpretEntity and interpretLocation only wrap the result of interpretObject

\* case MoveCommand, once the location and then the entity are interpreted
moveCommand(entB, entA, cmd) ==
    IF IsThrow(entB) THEN entB
    ELSE IF IsThrow(entA) THEN entA
    ELSE handleQuantifiers(entA.value, entB.value, cmd.entity.quantifier,
                           cmd.location.entity.quantifier, cmd.location.relation)

\* case DropCommand, once the location is interpreted
\* A call that hands the two lists to handleQuantifiers in the wrong order
dropSwapped(ent, cmd, w) ==
    IF IsThrow(ent) THEN ent
    ELSE IF w.holding = <<>> THEN Throw("I'm not holding anything")
    ELSE handleQuantifiers(ent.value, <<w.holding[1]>>, "any",
                           cmd.location.entity.quantifier, cmd.location.relation)

dropCommand(ent, cmd, w) ==
    IF IsThrow(ent) THEN ent
    ELSE IF w.holding = <<>> THEN Throw("I'm not holding anything")
    ELSE handleQuantifiers(<<w.holding[1]>>, ent.value, "any",
                           cmd.location.entity.quantifier, cmd.location.relation)

\* case TakeCommand, once the entity is interpreted
\* A TakeCommand without the test of the quantifier the
takeAmbiguous(ent, cmd) ==
    IF IsThrow(ent) THEN ent
    ELSE IF Len(ent.value) = 0 THEN Throw("Couldn't find any matching object")
    ELSE IF indexOf(ent.value, "floor") > -1 THEN Throw("I cannot take the floor")
    ELSE IF Len(ent.value) # 1 /\ cmd.entity.quantifier = "all"
    THEN Throw("I cannot take more than one object")
    ELSE Return([i \in DOMAIN ent.value |-> <<Literal("holding", <<ent.value[i]>>)>>])

\* A TakeCommand without the test of the floor
takeFloor(ent, cmd) ==
    IF IsThrow(ent) THEN ent
    ELSE IF Len(ent.value) = 0 THEN Throw("Couldn't find any matching object")
    ELSE IF Len(ent.value) # 1 /\ cmd.entity.quantifier = "the"
    THEN Throw("Found too many matching objects")
    ELSE IF Len(ent.value) # 1 /\ cmd.entity.quantifier = "all"
    THEN Throw("I cannot take more than one object")
    ELSE Return([i \in DOMAIN ent.value |-> <<Literal("holding", <<ent.value[i]>>)>>])

takeCommand(ent, cmd) ==
    IF IsThrow(ent) THEN ent
    ELSE IF Len(ent.value) = 0 THEN Throw("Couldn't find any matching object")
    ELSE IF indexOf(ent.value, "floor") > -1 THEN Throw("I cannot take the floor")
    ELSE IF Len(ent.value) # 1 /\ cmd.entity.quantifier = "the"
    THEN Throw("Found too many matching objects")
    ELSE IF Len(ent.value) # 1 /\ cmd.entity.quantifier = "all"
    THEN Throw("I cannot take more than one object")
    ELSE Return([i \in DOMAIN ent.value |-> <<Literal("holding", <<ent.value[i]>>)>>])

interpretCommand(cmd, w) ==
    IF cmd.tag = "MoveCommand"
    THEN moveCommand(interpretObject(cmd.location.entity.object, w),
                     interpretObject(cmd.entity.object, w), cmd)
    ELSE IF cmd.tag = "DropCommand"
    THEN dropCommand(interpretObject(cmd.location.entity.object, w), cmd, w)
    ELSE IF cmd.tag = "TakeCommand"
    THEN takeCommand(interpretObject(cmd.entity.object, w), cmd)
    ELSE Throw("Unknown command")

\* ------------------------------------------------------------------------
\* AStarSearch.ts: aStarSearch, and the planner's makePlan that calls it
\* ------------------------------------------------------------------------

\* ShrdliteNode.id, the key of a node in astarTable and heurTable
nodeId(state) ==
    LET stringifiedStacks ==
            [i \in DOMAIN state.stacks |-> "[" \o join(state.stacks[i], ",") \o "]"]
    IN  ToString(state.arm) \o ","
        \o (IF state.holding = <<>> THEN "null" ELSE state.holding[1])
        \o ",[" \o join(stringifiedStacks, ",") \o "]"

\* A Dictionary is a function on the keys set so far; getValue of another
\* key is undefined, written <<>>.
getValue(table, node) ==
    IF nodeId(node) \in DOMAIN table THEN <<table[nodeId(node)]>> ELSE <<>>

setValue(table, node, v) ==
    [k \in DOMAIN table \cup {nodeId(node)} |-> IF k = nodeId(node) THEN v ELSE table[k]]

\* !cost : cost is undefined or 0
falsy(cost) == cost = <<>> \/ cost[1] = 0

\* heurcost(node): the cost returned and the heurTable it leaves
heurcost(heurTable, dnf, node) ==
    LET cost == getValue(heurTable, node)
    IN  IF falsy(cost)
        THEN [cost |-> heuristics(dnf, node),
              heurTable |-> setValue(heurTable, node, heuristics(dnf, node))]
        ELSE [cost |-> cost[1], heurTable |-> heurTable]

\* parent and edge are <<>> (undefined) for the first search node only
SearchNode(parent, edge, totalcost, astarcost) ==
    [parent |-> parent, edge |-> edge, totalcost |-> totalcost, astarcost |-> astarcost]

\* The array path after the while loop of path(endNode): the edges pushed
\* from the end node back to the start
RECURSIVE pushed(_)
pushed(node) ==
    IF node.edge # <<>> /\ node.parent # <<>>
    THEN <<node.edge[1]>> \o pushed(node.parent[1])
    ELSE <<>>

reverse(arr) == [i \in DOMAIN arr |-> arr[Len(arr) + 1 - i]]

\* A path that forgets the final reverse(): the edges from the goal backwards
pathNotReversed(endNode) == pushed(endNode)

path(endNode) == reverse(pushed(endNode))

SearchResult(status, edges, cost, visited) ==
    [status |-> status, path |-> edges, cost |-> cost, visited |-> visited]

\* if (!oldcost || astarcost < oldcost) { astarTable.setValue(...);
\* frontier.enqueue(...) } on the locals l, heurTable being the table
\* heurcost(next.child) has left
enqueueIfSeenLower(next, searchnode, totalcost, astarcost, heurTable, l) ==
    IF getValue(l.astarTable, next.child) # <<>>
       /\ astarcost < getValue(l.astarTable, next.child)[1]
    THEN [frontier |-> l.frontier \cup
                       {SearchNode(<<searchnode>>, <<next>>, totalcost, astarcost)},
          astarTable |-> setValue(l.astarTable, next.child, astarcost),
          heurTable |-> heurTable]
    ELSE [frontier |-> l.frontier, astarTable |-> l.astarTable, heurTable |-> heurTable]

enqueueIfLower(next, searchnode, totalcost, astarcost, heurTable, l) ==
    IF falsy(getValue(l.astarTable, next.child))
       \/ astarcost < getValue(l.astarTable, next.child)[1]
    THEN [frontier |-> l.frontier \cup
                       {SearchNode(<<searchnode>>, <<next>>, totalcost, astarcost)},
          astarTable |-> setValue(l.astarTable, next.child, astarcost),
          heurTable |-> heurTable]
    ELSE [frontier |-> l.frontier, astarTable |-> l.astarTable, heurTable |-> heurTable]

\* The body of the for loop for the successor next, hc being the result
\* of heurcost(next.child)
visitWith(next, searchnode, hc, l) ==
    enqueueIfLower(next, searchnode, searchnode.totalcost + next.cost,
                   searchnode.totalcost + next.cost + hc.cost, hc.heurTable, l)

visit(next, searchnode, dnf, l) ==
    visitWith(next, searchnode, heurcost(l.heurTable, dnf, next.child), l)

\* The for loop over the successors of searchnode, from the locals l.
RECURSIVE expand(_, _, _, _)
expand(succs, searchnode, dnf, l) ==
    IF succs = <<>> THEN l
    ELSE expand(Tail(succs), searchnode, dnf, visit(Head(succs), searchnode, dnf, l))

\* frontier.dequeue() takes an entry of lowest astarcost; which one among
\* equal astarcost is left to the heap.
lowest(frontier) == {x \in frontier : \A y \in frontier : x.astarcost <= y.astarcost}

\* makePlan up to the while loop of aStarSearch
MakePlan ==
    /\ pc = "start"
    /\ LET h1 == heurcost(<<>>, intp, world)
           h2 == heurcost(h1.heurTable, intp, world)
       IN  srch' = [frontier |-> {SearchNode(<<>>, <<>>, 0, h1.cost)},
                    astarTable |-> setValue(<<>>, world, h2.cost),
                    heurTable |-> h2.heurTable]
    /\ pc' = "search"
    /\ UNCHANGED <<world, intp, inp, out>>

\* One pass of  while (Date.now() < endTime) { ... }  before the deadline
Iterate ==
    /\ pc = "search"
    /\ IF srch.frontier = {}
       THEN srch' = SearchResult("failure", <<>>, -1, Cardinality(DOMAIN srch.astarTable))
            /\ pc' = "returned"
       ELSE \E searchnode \in lowest(srch.frontier) :
              LET graphnode == IF searchnode.edge # <<>>
                               THEN searchnode.edge[1].child
                               ELSE world
              IN  IF goalTest(intp, graphnode)
                  THEN /\ srch' = SearchResult("success", path(searchnode),
                                               searchnode.totalcost,
                                               Cardinality(DOMAIN srch.astarTable))
                       /\ pc' = "returned"
                  ELSE /\ srch' = expand(successors(graphnode), searchnode, intp,
                                         [srch EXCEPT !.frontier = @ \ {searchnode}])
                       /\ pc' = "search"
    /\ UNCHANGED <<world, intp, inp, out>>

\* The loop test finds Date.now() >= endTime
Timeout ==
    /\ pc = "search"
    /\ srch' = SearchResult("timeout", <<>>, -1, Cardinality(DOMAIN srch.astarTable))
    /\ pc' = "returned"
    /\ UNCHANGED <<world, intp, inp, out>>

makePlanAnyway(result) == Return([i \in DOMAIN result.path |-> result.path[i].action])

\* What makePlan makes of the result of aStarSearch
makePlanOutcome(result) ==
    IF result.status = "timeout"
    THEN Throw("TIMEOUT! Visited " \o ToString(result.visited) \o " nodes")
    ELSE IF result.status = "failure"
    THEN Throw("No path exists from start to goal")
    ELSE Return([i \in DOMAIN result.path |-> result.path[i].action])

\* makePlan after aStarSearch has returned
MakePlanReturn ==
    /\ pc = "returned"
    /\ out' = makePlanOutcome(srch)
    /\ pc' = "done"
    /\ UNCHANGED <<world, intp, srch, inp>>

\* ------------------------------------------------------------------------
\* Inputs
\* ------------------------------------------------------------------------

\* Number of columns of the planner's worlds
NumStacks == 3

\* Longest list of matching objects handed to handleQuantifiers directly
MaxLen == 2

emptyStacks == [i \in 1..(NumStacks - 2) |-> <<>>]

\* The planner's worlds hold three objects of the catalogue: a table that
\* stands only on the floor, a box that may stand on it and a ball that
\* must be in the box or on the floor. In the last one the arm holds the
\* box over the table's column.
PlanWorlds ==
    { WorldState(0, <<>>,
                 <<<<"LargeBlueTable", "SmallBlueBox">>, <<"SmallBlackBall">>>> \o emptyStacks),
      WorldState(NumStacks - 1, <<"SmallBlueBox">>,
                 <<<<"SmallBlackBall">>, <<"LargeBlueTable">>>> \o emptyStacks),
      WorldState(1, <<"SmallBlueBox">>,
                 <<<<"SmallBlackBall">>, <<"LargeBlueTable">>>> \o emptyStacks) }

PlanDescs ==
    { SimpleObject("ball", "small", NULL),
      SimpleObject("box", "small", NULL),
      SimpleObject("table", "large", NULL),
      SimpleObject("anyform", NULL, "blue"),
      SimpleObject("floor", NULL, NULL) }

PlanCommands ==
    { TakeCommand(Entity(q, d)) : q \in Quantifiers, d \in PlanDescs }
    \cup { DropCommand(Location(r, Entity(q, d))) :
              r \in Relations, q \in Quantifiers, d \in PlanDescs }
    \cup { MoveCommand(Entity(qA, dA), Location(r, Entity(qB, dB))) :
              qA \in Quantifiers, dA \in PlanDescs, r \in Relations,
              qB \in Quantifiers, dB \in PlanDescs }

\* The interpretations that interpret hands to plan for a world
PlanGoals(w) ==
    { interpretCommand(cmd, w).value :
        cmd \in {c \in PlanCommands : ~IsThrow(interpretCommand(c, w))} }

\* ------------------------------------------------------------------------
\* The world graph walked edge by edge
\* ------------------------------------------------------------------------

InitGraph ==
    /\ world \in PlanWorlds
    /\ intp \in PlanGoals(world)
    /\ srch = Idle /\ inp = Idle /\ out = Idle
    /\ pc = "graph"

Step(action) ==
    /\ pc = "graph"
    /\ neighbor(world, action) # <<>>
    /\ world' = neighbor(world, action)[1]
    /\ UNCHANGED <<intp, srch, inp, out, pc>>

Left == Step("l")
Right == Step("r")
Pick == Step("p")
Drop == Step("d")

NextGraph == Left \/ Right \/ Pick \/ Drop

SpecGraph == InitGraph /\ [][NextGraph]_vars

\* ------------------------------------------------------------------------
\* The planner on one interpretation
\* ------------------------------------------------------------------------

InitSearch ==
    /\ world \in PlanWorlds
    /\ intp \in PlanGoals(world)
    /\ srch = Idle /\ inp = Idle /\ out = Idle
    /\ pc = "start"

NextSearch == MakePlan \/ Iterate \/ Timeout \/ MakePlanReturn

SpecSearch == InitSearch /\ [][NextSearch]_vars

\* The search whose deadline is never reached: the loop test
\* Date.now() < endTime is true at every pass, and every pass of the loop
\* and every statement of makePlan is eventually executed.
NextSearchLive == MakePlan \/ Iterate \/ MakePlanReturn

\* Weak fairness of the step taken at the position p. MakePlan and Iterate
\* are enabled exactly when pc is "start" and "search" and each of their
\* steps changes the state, so WF_vars(MakePlan) and WF_vars(Iterate) say
\* that the program does not stay at the position for ever without a step.
Running(p) == []<>(pc # p) \/ []<><<pc = p>>_vars

SpecSearchLive ==
    /\ InitSearch
    /\ [][NextSearchLive]_vars
    /\ Running("start") /\ Running("search") /\ WF_vars(MakePlanReturn)

\* ------------------------------------------------------------------------
\* The physical laws applied to one pair of objects
\* ------------------------------------------------------------------------

InitPhysics ==
    /\ inp \in [rel : Relations, obj1 : ObjectIds \cup {"floor"},
                obj2 : ObjectIds \cup {"floor"}]
    /\ world = Idle /\ intp = Idle /\ srch = Idle /\ out = Idle
    /\ pc = "start"

\* The interpreter asks validate(rel, obj1, obj2)
Validate ==
    /\ pc = "start"
    /\ out' = [error |-> validate(inp.rel, inp.obj1, inp.obj2)]
    /\ pc' = "validated"
    /\ UNCHANGED <<world, intp, srch, inp>>

\* The planner asks isValidDrop for the same pair: objA is the object held,
\* never the floor; objB is the top of the stack or the floor object
IsValidDrop ==
    /\ pc = "validated"
    /\ inp.obj1 # "floor"
    /\ out' = [error |-> out.error,
               drop |-> isValidDrop(objects[inp.obj1],
                                    IF inp.obj2 = "floor" THEN floorObject
                                    ELSE objects[inp.obj2])]
    /\ pc' = "done"
    /\ UNCHANGED <<world, intp, srch, inp>>

NextPhysics == Validate \/ IsValidDrop

SpecPhysics == InitPhysics /\ [][NextPhysics]_vars

\* ------------------------------------------------------------------------
\* The quantifier combiner on two lists of matching objects
\* ------------------------------------------------------------------------

\* interpretObject returns keys in the order of world.objects, each once,
\* and the floor only as the list ["floor"]
CombinerKeys ==
    {"LargeWhiteBall", "SmallBlackBall", "LargeBlueTable", "LargeYellowBox",
     "SmallBlueBox", "LrgGrnBrck1", "LrgGrnBrck2"}

Matches ==
    { SelectSeq(objectKeys, LAMBDA key : key \in S) :
        S \in {T \in SUBSET CombinerKeys : 1 <= Cardinality(T) /\ Cardinality(T) <= MaxLen} }
    \cup {<<"floor">>}

InitCombiner ==
    /\ inp \in [objectsA : Matches, objectsB : Matches,
                quanA : Quantifiers, quanB : Quantifiers, rel : Relations]
    /\ world = Idle /\ intp = Idle /\ srch = Idle /\ out = Idle
    /\ pc = "start"

HandleQuantifiers ==
    /\ pc = "start"
    /\ out' = handleQuantifiers(inp.objectsA, inp.objectsB, inp.quanA, inp.quanB, inp.rel)
    /\ pc' = "done"
    /\ UNCHANGED <<world, intp, srch, inp>>

NextCombiner == HandleQuantifiers

SpecCombiner == InitCombiner /\ [][NextCombiner]_vars

\* ------------------------------------------------------------------------
\* The interpreter on one parse
\* ------------------------------------------------------------------------

\* The small world of the test cases, and the same world after a pick
InterpWorlds ==
    { WorldState(0, <<>>,
                 << <<"LargeWhiteBall">>, <<"LargeBlueTable", "LargeRedBox">>, <<>>,
                    <<"LargeYellowBox", "SmallBlueBox", "SmallBlackBall">>, <<>> >>),
      WorldState(0, <<"LargeWhiteBall">>,
                 << <<>>, <<"LargeBlueTable", "LargeRedBox">>, <<>>,
                    <<"LargeYellowBox", "SmallBlueBox", "SmallBlackBall">>, <<>> >>) }

InterpDescs ==
    { SimpleObject("ball", NULL, NULL),
      SimpleObject("ball", NULL, "white"),
      SimpleObject("box", NULL, NULL),
      SimpleObject("box", "large", NULL),
      SimpleObject("table", NULL, NULL),
      SimpleObject("brick", "large", "green"),
      SimpleObject("anyform", NULL, NULL),
      SimpleObject("floor", NULL, NULL) }

RelativeDescs ==
    { RelativeObject(d, Location(r, Entity(q, e))) :
        d \in { SimpleObject("ball", NULL, NULL), SimpleObject("box", NULL, NULL),
                SimpleObject("anyform", NULL, NULL) },
        r \in Relations, q \in Quantifiers,
        e \in { SimpleObject("box", NULL, NULL), SimpleObject("table", NULL, NULL),
                SimpleObject("floor", NULL, NULL) } }

InterpCommands ==
    { TakeCommand(Entity(q, d)) : q \in Quantifiers, d \in InterpDescs \cup RelativeDescs }
    \cup { DropCommand(Location(r, Entity(q, d))) :
              r \in Relations, q \in Quantifiers, d \in InterpDescs }
    \cup { MoveCommand(Entity(qA, dA), Location(r, Entity(qB, dB))) :
              qA \in Quantifiers, dA \in InterpDescs, r \in Relations,
              qB \in Quantifiers, dB \in InterpDescs }
    \cup { MoveCommand(Entity(qA, dA), Location(r, Entity(qB, dB))) :
              qA \in {"any", "all"}, dA \in RelativeDescs, r \in {"ontop", "inside", "beside"},
              qB \in {"any"}, dB \in { SimpleObject("box", NULL, NULL),
                                      SimpleObject("floor", NULL, NULL) } }

InitInterp ==
    /\ world \in InterpWorlds
    /\ inp \in InterpCommands
    /\ intp = Idle /\ srch = Idle /\ out = Idle
    /\ pc = "start"

\* interpreter.interpretCommand(result.parse) for one parse
InterpretCommand ==
    /\ pc = "start"
    /\ out' = interpretCommand(inp, world)
    /\ pc' = "done"
    /\ UNCHANGED <<world, intp, srch, inp>>

NextInterp == InterpretCommand

SpecInterp == InitInterp /\ [][NextInterp]_vars

\* ------------------------------------------------------------------------
\* The two top-level drivers: interpret on the parses of an utterance, then
\* plan on the interpretations it returns
\* ------------------------------------------------------------------------

\* Types.ts: a parse result with its interpretation and plan (<<>> while
\* they are not set)
ShrdliteResult(input, parse, interpretation, plan) ==
    [input |-> input, parse |-> parse, interpretation |-> interpretation, plan |-> plan]

\* The body of the for loop of interpret for the parse result, r being what
\* interpreter.interpretCommand(result.parse) returned or threw, on the
\* locals l (errors, interpretations)
interpreted(l, result, r) ==
    IF IsThrow(r)
    THEN [l EXCEPT !.errors = Append(@, r.throw)]
    ELSE [l EXCEPT !.interpretations = Append(@, [result EXCEPT !.interpretation = r.value])]

\* The for loop of interpret over the parses left
RECURSIVE interpretEach(_, _, _)
interpretEach(parses, w, l) ==
    IF parses = <<>> THEN l
    ELSE interpretEach(Tail(parses), w,
                       interpreted(l, Head(parses), interpretCommand(Head(parses).parse, w)))

\* The end of interpret, l being its locals after the loop
interpretEnd(l) ==
    IF Len(l.interpretations) = 0
    THEN Throw(join(l.errors, " ; "))
    ELSE Return(l.interpretations)

interpret(parses, w) ==
    interpretEnd(interpretEach(parses, w, [errors |-> <<>>, interpretations |-> <<>>]))

\* The body of the for loop of plan once makePlan(result.interpretation)
\* has returned or thrown r, on the locals l (errors, plans)
\* A loop that gives up the plans found so far when a makePlan raises
planGivenUp(l, result, r) ==
    IF IsThrow(r)
    THEN [l EXCEPT !.errors = Append(@, r.throw), !.plans = <<>>]
    ELSE [l EXCEPT !.plans = Append(@, [result EXCEPT !.plan =
                IF Len(r.value) = 0 THEN <<"The interpretation is already true!">>
                ELSE r.value])]

planNoSentinel(l, result, r) ==
    IF IsThrow(r)
    THEN [l EXCEPT !.errors = Append(@, r.throw)]
    ELSE [l EXCEPT !.plans = Append(@, [result EXCEPT !.plan = r.value])]

planCollected(l, result, r) ==
    IF IsThrow(r)
    THEN [l EXCEPT !.errors = Append(@, r.throw)]
    ELSE [l EXCEPT !.plans = Append(@, [result EXCEPT !.plan =
                IF Len(r.value) = 0 THEN <<"The interpretation is already true!">>
                ELSE r.value])]

\* The end of plan, l being its locals after the loop
planEnd(l) ==
    IF Len(l.plans) = 0
    THEN Throw(join(l.errors, " ; "))
    ELSE Return(l.plans)

\* Longest list of parses of one utterance
MaxParses == 2

\* The commands of the parses: two that the planner's worlds can carry out,
\* one that needs an object in the arm and one that is always refused
DriverCommands ==
    { TakeCommand(Entity("the", SimpleObject("ball", "small", NULL))),
      TakeCommand(Entity("any", SimpleObject("box", "small", NULL))),
      DropCommand(Location("ontop", Entity("the", SimpleObject("floor", NULL, NULL)))),
      TakeCommand(Entity("the", SimpleObject("floor", NULL, NULL))) }

ParseLists ==
    UNION { [1..n -> {ShrdliteResult("utterance", c, <<>>, <<>>) : c \in DriverCommands}] :
              n \in 1..MaxParses }

\* inp holds the locals of the drivers: the parses, what interpret returned,
\* the interpretations plan has still to visit, its errors and plans, the
\* result of each makePlan call so far, and what plan returned
InitShrdlite ==
    /\ world \in PlanWorlds
    /\ inp \in [parses : ParseLists, interpreted : {Idle}, rest : {<<>>},
                errors : {<<>>}, plans : {<<>>}, outcomes : {<<>>}, result : {Idle}]
    /\ intp = Idle /\ srch = Idle /\ out = Idle
    /\ pc = "parsed"

\* The locals of the caller once interpret has returned or thrown r
called(l, r) ==
    [l EXCEPT !.interpreted = r, !.rest = IF IsThrow(r) THEN <<>> ELSE r.value]

\* interpret(parses, world); its caller goes on to plan unless it raised
Interpret ==
    /\ pc = "parsed"
    /\ inp' = called(inp, interpret(inp.parses, world))
    /\ pc' = IF IsThrow(inp'.interpreted) THEN "failed" ELSE "plan"
    /\ UNCHANGED <<world, intp, srch, out>>

\* for (var result of interpretations): makePlan is called for the next one
PlanNext ==
    /\ pc = "plan" /\ inp.rest # <<>>
    /\ intp' = Head(inp.rest).interpretation
    /\ srch' = Idle /\ out' = Idle
    /\ pc' = "start"
    /\ UNCHANGED <<world, inp>>

\* makePlan is back: the rest of the loop body
PlanCollect ==
    /\ pc = "done"
    /\ inp' = [planCollected(inp, Head(inp.rest), out) EXCEPT
                  !.rest = Tail(inp.rest), !.outcomes = Append(inp.outcomes, out)]
    /\ pc' = "plan"
    /\ UNCHANGED <<world, intp, srch, out>>

\* The loop of plan is over
PlanReturn ==
    /\ pc = "plan" /\ inp.rest = <<>>
    /\ inp' = [inp EXCEPT !.result = planEnd(inp)]
    /\ pc' = "planned"
    /\ UNCHANGED <<world, intp, srch, out>>

NextShrdlite ==
    \/ Interpret \/ PlanNext \/ MakePlan \/ Iterate \/ Timeout \/ MakePlanReturn
    \/ PlanCollect \/ PlanReturn

SpecShrdlite == InitShrdlite /\ [][NextShrdlite]_vars

\* ------------------------------------------------------------------------
\* ShrdliteNode built for two states of one world
\* ------------------------------------------------------------------------

\* new ShrdliteNode(state)
ShrdliteNode(state) == [id |-> nodeId(state), state |-> state]

\* Number of columns of the worlds whose nodes are compared
IdColumns == 2

\* The keys of the world's objects: any strings
IdObjects == {"a", "b", "a,b"}

\* The stacks that can be built of a set of objects, each one placed once
stacksOf(ids) ==
    LET piles == UNION {[1..n -> ids] : n \in 0..Cardinality(ids)}
    IN  {st \in [1..IdColumns -> piles] :
            \A id \in ids :
               Cardinality({<<c, r>> \in (1..IdColumns) \X (1..Cardinality(ids)) :
                               r \in DOMAIN st[c] /\ st[c][r] = id}) = 1}

\* The states of the world: the arm over a column, empty or holding one of
\* the objects, the other objects stacked
IdWorlds ==
    {WorldState(arm, <<>>, st) : arm \in 0..(IdColumns - 1), st \in stacksOf(IdObjects)}
    \cup UNION {{WorldState(arm, <<held>>, st) :
                    arm \in 0..(IdColumns - 1), st \in stacksOf(IdObjects \ {held})} :
                held \in IdObjects}

InitNodes ==
    /\ inp \in [first : IdWorlds, second : IdWorlds]
    /\ world = Idle /\ intp = Idle /\ srch = Idle /\ out = Idle
    /\ pc = "states"

\* A node is built for each of the two states
NewNodes ==
    /\ pc = "states"
    /\ out' = [first |-> ShrdliteNode(inp.first), second |-> ShrdliteNode(inp.second)]
    /\ pc' = "nodes"
    /\ UNCHANGED <<world, intp, srch, inp>>

SpecNodes == InitNodes /\ [][NewNodes]_vars

\* ------------------------------------------------------------------------
\* Reference definitions for the properties
\* ------------------------------------------------------------------------

Range(f) == {f[i] : i \in DOMAIN f}

\* The state after the actions are applied in turn, each along an edge of
\* the state it is applied to; <<>> when one of them is not an edge there.
RECURSIVE replay(_, _)
replay(state, acts) ==
    IF acts = <<>> THEN <<state>>
    ELSE LET edges == {e \in Range(successors(state)) : e.action = Head(acts)}
         IN  IF edges = {} THEN <<>>
             ELSE replay((CHOOSE e \in edges : TRUE).child, Tail(acts))

\* Breadth-first search over the edges: the length of a shortest action
\* sequence from a state of layer to a state satisfying dnf, Infinity when
\* there is none.
RECURSIVE shortest(_, _, _, _)
shortest(dnf, layer, seen, depth) ==
    IF \E s \in layer : goalTest(dnf, s) THEN depth
    ELSE LET next == UNION {{e.child : e \in Range(successors(s))} : s \in layer} \ seen
         IN  IF next = {} THEN Infinity
             ELSE shortest(dnf, next, seen \cup next, depth + 1)

ShortestPlan(dnf, state) == shortest(dnf, {state}, {state}, 0)

\* Rules 1-11 of the physics section of the specification
ruleFires(rel, obj1, obj2) ==
    LET a == IF obj1 = "floor" THEN floorObject ELSE objects[obj1]
        b == IF obj2 = "floor" THEN floorObject ELSE objects[obj2]
    IN  \/ a.form = "floor"
        \/ b.form = "floor" /\ rel \in {"under", "leftof", "rightof", "beside", "inside"}
        \/ obj1 = obj2
        \/ a.form = "ball" /\ rel = "ontop" /\ b.form # "floor"
        \/ a.form = "ball" /\ rel = "under"
        \/ b.form = "ball" /\ rel \in {"ontop", "above"}
        \/ rel = "inside" /\ b.form # "box"
        \/ rel = "ontop" /\ b.form = "box"
        \/ /\ a.form \in {"pyramid", "plank", "box"} /\ b.form = "box"
           /\ rel = "inside" /\ a.size = b.size
        \/ /\ a.form = "box" /\ rel = "ontop" /\ b.form \in {"pyramid", "brick"}
           /\ \/ a.size = "small" /\ b.size = "small"
              \/ a.size = "large" /\ b.size = "large" /\ b.form = "pyramid"
        \/ rel \in {"inside", "ontop"} /\ a.size = "large" /\ b.size = "small"

\* The relation a drop onto obj2 establishes: inside a box, ontop otherwise
dropRelation(obj2) ==
    IF obj2 # "floor" /\ objects[obj2].form = "box" THEN "inside" ELSE "ontop"

\* The objects of the planner's worlds
PlanObjects == {"LargeBlueTable", "SmallBlueBox", "SmallBlackBall"}

\* The ids of a state with their number of occurrences in holding and stacks
RECURSIVE sumLen(_)
sumLen(stacks) == IF stacks = <<>> THEN 0 ELSE Len(Head(stacks)) + sumLen(Tail(stacks))

activeIds(state) == Range(state.holding) \cup UNION {Range(state.stacks[i]) : i \in DOMAIN state.stacks}

occurrences(state) == Len(state.holding) + sumLen(state.stacks)

\* The edges the specification gives a state
claimEdges(state) ==
    LET stack == state.stacks[state.arm + 1]
        top == IF stack = <<>> THEN "floor" ELSE stack[Len(stack)]
    IN  (IF state.arm > 0
         THEN {[action |-> "l", cost |-> 1, child |-> [state EXCEPT !.arm = @ - 1]]}
         ELSE {})
        \cup
        (IF state.arm < Len(state.stacks) - 1
         THEN {[action |-> "r", cost |-> 1, child |-> [state EXCEPT !.arm = @ + 1]]}
         ELSE {})
        \cup
        (IF state.holding = <<>> /\ stack # <<>>
         THEN {[action |-> "p", cost |-> 1,
                child |-> [state EXCEPT !.holding = <<top>>,
                                        !.stacks[state.arm + 1] = SubSeq(stack, 1, Len(stack) - 1)]]}
         ELSE {})
        \cup
        (IF state.holding # <<>> /\ ~ruleFires(dropRelation(top), state.holding[1], top)
         THEN {[action |-> "d", cost |-> 1,
                child |-> [state EXCEPT !.holding = <<>>,
                                        !.stacks[state.arm + 1] = Append(stack, state.holding[1])]]}
         ELSE {})

\* ------------------------------------------------------------------------
\* Properties of the planner (SpecSearch) and of the world graph (SpecGraph)
\* ------------------------------------------------------------------------

\* C1: when the search returns success, the returned actions applied one by
\* one from the start world are each an edge of the state they are applied
\* to, the state they end in satisfies the DNF, and the returned cost is
\* the number of actions; the plan makePlan returns is that action list.
C1_PlanReachesGoal ==
    (pc \in {"returned", "done"} /\ srch.status = "success") =>
        LET acts == [i \in DOMAIN srch.path |-> srch.path[i].action]
            end == replay(world, acts)
        IN  /\ end # <<>>
            /\ goalTest(intp, end[1])
            /\ srch.cost = Len(srch.path)
            /\ pc = "done" => out = Return(acts)

\* A plan of at least four actions has been returned
C1_Witness ==
    pc = "done" /\ srch.status = "success" /\ ~IsThrow(out) /\ Len(out.value) >= 4

\* C2: when the search returns success, no sequence of legal actions from
\* the start world that ends in a state satisfying the DNF is shorter than
\* the returned plan, whichever of the entries of equal f is dequeued.
C2_PlanIsShortest ==
    (pc = "returned" /\ srch.status = "success") =>
        srch.cost <= ShortestPlan(intp, world)

\* C3: in every reachable state the heuristic value is at most the length
\* of the shortest action sequence to a state satisfying the DNF.
C3_Admissible ==
    pc = "graph" =>
        \/ ShortestPlan(intp, world) = Infinity
        \/ heuristics(intp, world) <= ShortestPlan(intp, world)

\* C4: in every state that satisfies a DNF returned by the interpreter the
\* heuristic value is exactly 0.
C4_GoalHasZeroHeuristic ==
    (pc = "graph" /\ goalTest(intp, world)) => heuristics(intp, world) = 0

\* C5: every state reached by l/r/p/d edges has its arm over one of the
\* stacks, the number of stacks and the set of object ids of the start
\* world, every id exactly once in holding plus stacks, and the held id
\* in no stack.
C5_WorldSnapshot ==
    pc = "graph" =>
        /\ 0 <= world.arm /\ world.arm < Len(world.stacks)
        /\ Len(world.stacks) = NumStacks
        /\ activeIds(world) = PlanObjects
        /\ occurrences(world) = Cardinality(PlanObjects)
        /\ world.holding # <<>> =>
              \A i \in DOMAIN world.stacks : ~memberOf(world.holding[1], world.stacks[i])

\* An object has been picked, carried to the last column and dropped there
C5_Witness ==
    pc = "graph" /\ world.holding = <<>> /\ world.arm = 0 /\ world.stacks[NumStacks] # <<>>

\* C6: the successors of a state are exactly the l, r, p and d edges the
\* specification gives it, each once and each of cost 1.
C6_SuccessorsAreTheEdges ==
    pc = "graph" =>
        /\ Range(successors(world)) = claimEdges(world)
        /\ Len(successors(world)) = Cardinality(claimEdges(world))

\* A state where the arm holds an object whose drop is refused, next to
\* the left wall: its only edge is r
C6_Witness ==
    /\ pc = "graph" /\ world.arm = 0 /\ world.holding # <<>>
    /\ Len(successors(world)) = 1

\* ------------------------------------------------------------------------
\* Properties of the physical laws (SpecPhysics), of the interpreter
\* (SpecInterp) and of the quantifier combiner (SpecCombiner)
\* ------------------------------------------------------------------------

\* C7: for distinct objects a and b (b possibly the floor), isValidDrop(a, b)
\* is true exactly when validate(R, a, b) reports no violation, R being
\* inside when b is a box and ontop otherwise.
C7_SamePhysicalLaws ==
    (pc = "done" /\ inp.obj1 # inp.obj2 /\ inp.rel = dropRelation(inp.obj2)) =>
        (out.drop <=> out.error = undefined)

\* C8: validate(rel, a, b) reports a violation exactly when one of the
\* rules 1-11 fires for (rel, a, b).
C8_ValidateIsTheRules ==
    pc \in {"validated", "done"} =>
        (out.error # undefined <=> ruleFires(inp.rel, inp.obj1, inp.obj2))

\* C9: every binary literal R(a, b) of every conjunction of a DNF returned
\* by interpretCommand passes validate(R, a, b).
C9_LiteralsAreLegal ==
    (pc = "done" /\ ~IsThrow(out)) =>
        \A i \in DOMAIN out.value : \A j \in DOMAIN out.value[i] :
            LET lit == out.value[i][j]
            IN  Len(lit.args) = 2 =>
                    validate(lit.relation, lit.args[1], lit.args[2]) = undefined

\* A Move command with a quantifier all has returned a conjunction of
\* several binary literals
C9_Witness ==
    /\ pc = "done" /\ ~IsThrow(out)
    /\ inp.tag = "MoveCommand"
    /\ inp.entity.quantifier = "all" \/ inp.location.entity.quantifier = "all"
    /\ \E i \in DOMAIN out.value :
          Len(out.value[i]) >= 2 /\ \A j \in DOMAIN out.value[i] : Len(out.value[i][j].args) = 2

\* C10: with R ontop or inside, qA = all and more than one object in A, the
\* error "Only 1 thing can be R another object" is raised only when B[0]
\* is not the floor; when B is the floor and R is ontop the result is the
\* single conjunction of ontop(a, floor) for every a of A.
C10_FloorException ==
    pc = "done" =>
        /\ out = Throw("Only 1 thing can be " \o inp.rel \o " another object")
              => inp.objectsB[1] # "floor"
        /\ ( /\ inp.rel = "ontop" /\ inp.quanA = "all" /\ Len(inp.objectsA) > 1
             /\ inp.objectsB = <<"floor">> )
              => out = Return(<< [i \in DOMAIN inp.objectsA |->
                                    Literal("ontop", <<inp.objectsA[i], "floor">>)] >>)

\* ------------------------------------------------------------------------
\* Properties of the quantifier combiner with a quantifier all (SpecCombiner)
\* ------------------------------------------------------------------------

\* The pre-checks of handleQuantifiers let the call through
preChecksPass(objectsA, objectsB, quanA, quanB, rel) ==
    /\ Len(objectsA) > 0 /\ Len(objectsB) > 0
    /\ ~(quanA = "the" /\ Len(objectsA) > 1)
    /\ ~(quanB = "the" /\ Len(objectsB) > 1)
    /\ ~(rel \in {"ontop", "inside"} /\ quanB = "all" /\ Len(objectsB) > 1
         /\ objectsB[1] # "floor")
    /\ ~(rel \in {"ontop", "inside"} /\ quanA = "all" /\ Len(objectsA) > 1)

\* The pairs each conjunction ranges over when a quantifier is all: all of
\* A x B when both are, every a for one b when only qA is, every b for one a
\* when only qB is
claimGroups(objectsA, objectsB, quanA, quanB) ==
    IF quanA = "all" /\ quanB = "all"
    THEN <<pairsOuterA(objectsA, objectsB)>>
    ELSE IF quanA = "all"
    THEN [j \in DOMAIN objectsB |-> [i \in DOMAIN objectsA |-> <<objectsA[i], objectsB[j]>>]]
    ELSE [i \in DOMAIN objectsA |-> [j \in DOMAIN objectsB |-> <<objectsA[i], objectsB[j]>>]]

\* Every pair of the group is accepted by the physics predicate
legalGroup(rel, group) ==
    \A k \in DOMAIN group : validate(rel, group[k][1], group[k][2]) = undefined

\* C11: when a quantifier is all and the pre-checks pass, the conjunctions
\* returned are those of the groups all of whose pairs are legal, each with
\* the literal R(a, b) of every pair of its group; a group with an illegal
\* pair gives no conjunction, and an error is raised when no group is left.
C11_AllKeepsEveryPair ==
    ( /\ pc = "done"
      /\ inp.quanA = "all" \/ inp.quanB = "all"
      /\ preChecksPass(inp.objectsA, inp.objectsB, inp.quanA, inp.quanB, inp.rel) ) =>
        LET kept == SelectSeq(claimGroups(inp.objectsA, inp.objectsB, inp.quanA, inp.quanB),
                              LAMBDA g : legalGroup(inp.rel, g))
        IN  IF kept = <<>>
            THEN IsThrow(out)
            ELSE out = Return([k \in DOMAIN kept |->
                                 [i \in DOMAIN kept[k] |-> Literal(inp.rel, kept[k][i])]])

\* The relation is illegal between two objects of S exactly when they are
\* the same object
illegalOnlyWithItself(rel, S) ==
    \A i, j \in DOMAIN S : (validate(rel, S[i], S[j]) # undefined) <=> (i = j)

\* The DNF with one conjunction per b of S: R(a, b) for every other a of S
othersToEach(rel, S) ==
    [j \in DOMAIN S |->
        LET others == SelectSeq(S, LAMBDA a : a # S[j])
        IN  [i \in DOMAIN others |-> Literal(rel, <<others[i], S[j]>>)]]

\* C12 as stated: when qA = all and qB = any range over the same set S of
\* more than one object and R is illegal only between an object and itself,
\* the result is the DNF with one conjunction per b of S holding R(a, b)
\* for every other a of S.
C12_AllBesideOneOfThem ==
    ( /\ pc = "done"
      /\ inp.quanA = "all" /\ inp.quanB = "any"
      /\ inp.objectsA = inp.objectsB /\ Len(inp.objectsA) > 1
      /\ illegalOnlyWithItself(inp.rel, inp.objectsA) ) =>
        out = Return(othersToEach(inp.rel, inp.objectsA))

\* C12 (amended): the same for every relation but ontop and inside, for
\* which qA = all with more than one object raises the pre-check error.
C12_AllBesideOneOfThemAmended ==
    ( /\ pc = "done"
      /\ inp.quanA = "all" /\ inp.quanB = "any"
      /\ inp.objectsA = inp.objectsB /\ Len(inp.objectsA) > 1
      /\ illegalOnlyWithItself(inp.rel, inp.objectsA) ) =>
        IF inp.rel \in {"ontop", "inside"}
        THEN out = Throw("Only 1 thing can be " \o inp.rel \o " another object")
        ELSE out = Return(othersToEach(inp.rel, inp.objectsA))

\* The test's case: all large green bricks beside a large green brick
C12_Witness ==
    /\ pc = "done"
    /\ inp.quanA = "all" /\ inp.quanB = "any" /\ inp.rel = "beside"
    /\ inp.objectsA = <<"LrgGrnBrck1", "LrgGrnBrck2">> /\ inp.objectsB = inp.objectsA
    /\ out = Return(<< <<Literal("beside", <<"LrgGrnBrck2", "LrgGrnBrck1">>)>>,
                       <<Literal("beside", <<"LrgGrnBrck1", "LrgGrnBrck2">>)>> >>)

\* ------------------------------------------------------------------------
\* Properties of the quantifier combiner without a quantifier all
\* ------------------------------------------------------------------------

\* The pairs of A x B the physics predicate accepts, and the messages of the
\* pairs it rejects
acceptedPairs(objectsA, objectsB, rel) ==
    {p \in Range(objectsA) \X Range(objectsB) : validate(rel, p[1], p[2]) = undefined}

violations(objectsA, objectsB, rel) ==
    {validate(rel, p[1], p[2]) : p \in Range(objectsA) \X Range(objectsB)} \ {undefined}

\* msg is the messages of the set joined with "; ", each exactly once
joinsEachOnce(msg, messages) ==
    \E order \in [1..Cardinality(messages) -> messages] :
        /\ \A m \in messages : \E i \in DOMAIN order : order[i] = m
        /\ msg = join(order, "; ")

\* C13: when neither quantifier is all and the pre-checks pass, the DNF has
\* exactly one conjunction per pair of A x B that the physics predicate
\* accepts, each the single literal R(a, b), and none for a rejected pair;
\* when no pair is accepted the error raised is the distinct violation
\* messages of the pairs joined with "; ".
C13_OneConjunctionPerLegalPair ==
    ( /\ pc = "done"
      /\ inp.quanA # "all" /\ inp.quanB # "all"
      /\ preChecksPass(inp.objectsA, inp.objectsB, inp.quanA, inp.quanB, inp.rel) ) =>
        LET accepted == acceptedPairs(inp.objectsA, inp.objectsB, inp.rel)
        IN  IF accepted = {}
            THEN /\ IsThrow(out)
                 /\ joinsEachOnce(out.throw,
                                  violations(inp.objectsA, inp.objectsB, inp.rel))
            ELSE /\ ~IsThrow(out)
                 /\ Len(out.value) = Cardinality(accepted)
                 /\ Range(out.value) = {<<Literal(inp.rel, p)>> : p \in accepted}

\* Two pairs are rejected with the same message and none is accepted: the
\* error is that message once
C13_Witness ==
    /\ pc = "done"
    /\ inp.quanA = "any" /\ inp.quanB = "any" /\ inp.rel = "ontop"
    /\ inp.objectsA = <<"LargeBlueTable">>
    /\ inp.objectsB = <<"LargeWhiteBall", "SmallBlackBall">>
    /\ out = Throw("Nothing can be ontop a ball")

\* ------------------------------------------------------------------------
\* Properties of interpretCommand on one parse (SpecInterp)
\* ------------------------------------------------------------------------

\* The ids a description resolves to in the world: <<>> when the resolver
\* raises for want of a match
resolved(obj, w) ==
    IF IsThrow(interpretObject(obj, w)) THEN <<>> ELSE interpretObject(obj, w).value

\* The command with the quantifier of its entity, or of the entity of its
\* location, replaced by any
anyEntity(cmd) == [cmd EXCEPT !.entity.quantifier = "any"]
anyDestination(cmd) == [cmd EXCEPT !.location.entity.quantifier = "any"]

\* C14: a Take or Move command whose entity has the quantifier the and more
\* than one referent, and a Move or Drop command whose destination has the
\* quantifier the and more than one referent, raise an error; with exactly
\* one referent the command is interpreted as it is with the quantifier any.
C14_TheIsUnique ==
    pc = "done" =>
        /\ ( /\ inp.tag \in {"TakeCommand", "MoveCommand"}
             /\ inp.entity.quantifier = "the" ) =>
               /\ Len(resolved(inp.entity.object, world)) > 1 => IsThrow(out)
               /\ Len(resolved(inp.entity.object, world)) = 1 =>
                     out = interpretCommand(anyEntity(inp), world)
        /\ ( /\ inp.tag \in {"MoveCommand", "DropCommand"}
             /\ inp.location.entity.quantifier = "the" ) =>
               /\ Len(resolved(inp.location.entity.object, world)) > 1 => IsThrow(out)
               /\ Len(resolved(inp.location.entity.object, world)) = 1 =>
                     out = interpretCommand(anyDestination(inp), world)

\* "take the box" with several boxes has raised the error of the quantifier
C14_Witness ==
    /\ pc = "done"
    /\ inp.tag = "TakeCommand" /\ inp.entity.quantifier = "the"
    /\ Len(resolved(inp.entity.object, world)) > 1
    /\ out = Throw("Found too many matching objects")

\* C15: a TakeCommand whose entity resolves to A raises an error when A is
\* empty, holds the floor, or has not exactly one element while the
\* quantifier is the or all; otherwise it returns exactly one conjunction
\* [holding(a)] for each a of A.
C15_TakeIsHolding ==
    (pc = "done" /\ inp.tag = "TakeCommand") =>
        LET A == resolved(inp.entity.object, world)
        IN  IF \/ A = <<>>
               \/ "floor" \in Range(A)
               \/ Len(A) # 1 /\ inp.entity.quantifier \in {"the", "all"}
            THEN IsThrow(out)
            ELSE /\ ~IsThrow(out)
                 /\ Len(out.value) = Cardinality(Range(A))
                 /\ Range(out.value) = {<<Literal("holding", <<a>>)>> : a \in Range(A)}

\* "take a box" has returned one conjunction for each box
C15_Witness ==
    /\ pc = "done" /\ inp.tag = "TakeCommand" /\ inp.entity.quantifier = "any"
    /\ inp.entity.object = SimpleObject("box", NULL, NULL)
    /\ ~IsThrow(out) /\ Len(out.value) >= 3

\* C16: a DropCommand in a world that holds nothing raises an error; when
\* an object is held the result is that of the combiner for A = [holding]
\* and qA = any, and every literal of a DNF returned has the held object as
\* its first argument.
C16_DropTheHeldObject ==
    (pc = "done" /\ inp.tag = "DropCommand") =>
        IF world.holding = <<>>
        THEN IsThrow(out)
        ELSE /\ resolved(inp.location.entity.object, world) # <<>> =>
                    out = handleQuantifiers(<<world.holding[1]>>,
                                            resolved(inp.location.entity.object, world),
                                            "any", inp.location.entity.quantifier,
                                            inp.location.relation)
             /\ ~IsThrow(out) =>
                    \A i \in DOMAIN out.value : \A j \in DOMAIN out.value[i] :
                        /\ Len(out.value[i][j].args) = 2
                        /\ out.value[i][j].args[1] = world.holding[1]

\* The held ball may be dropped into any of several boxes
C16_Witness ==
    /\ pc = "done" /\ inp.tag = "DropCommand" /\ world.holding # <<>>
    /\ inp.location.relation = "inside"
    /\ ~IsThrow(out) /\ Len(out.value) >= 2

\* ------------------------------------------------------------------------
\* Properties of the reference resolver, seen through "take a ..." whose
\* DNF has one conjunction holding(a) for each id resolved (SpecInterp)
\* ------------------------------------------------------------------------

\* The ids of the DNF of a TakeCommand, in its order
heldIds(dnf) == [i \in DOMAIN dnf |-> dnf[i][1].args[1]]

\* The catalogue entry matches the description
claimMatches(desc, id) ==
    /\ desc.form = "anyform" \/ desc.form = objects[id].form
    /\ desc.size = NULL \/ desc.size = objects[id].size
    /\ desc.color = NULL \/ desc.color = objects[id].color

\* C17: a SimpleObject description with a form other than floor resolves to
\* exactly the ids that are in some stack or held and whose catalogue entry
\* matches its form, size and color; an id that is only in the catalogue
\* is never among them.
C17_OnlyObjectsOfTheWorld ==
    ( /\ pc = "done" /\ inp.tag = "TakeCommand" /\ inp.entity.quantifier = "any"
      /\ inp.entity.object.tag = "SimpleObject" /\ inp.entity.object.form # "floor" ) =>
        LET present == {id \in activeIds(world) : claimMatches(inp.entity.object, id)}
        IN  IF present = {}
            THEN IsThrow(out)
            ELSE /\ ~IsThrow(out)
                 /\ Range(heldIds(out.value)) = present
                 /\ Len(out.value) = Cardinality(present)

\* The column and row of an id in the stacks, both from 0
columnsOf(id, w) == {c \in DOMAIN w.stacks : id \in Range(w.stacks[c])}
colOf(id, w) == (CHOOSE c \in columnsOf(id, w) : TRUE) - 1
rowOf(id, w) ==
    LET stack == w.stacks[colOf(id, w) + 1]
    IN  (CHOOSE r \in DOMAIN stack : stack[r] = id) - 1

\* positional(relation, a, b) in the stacks of w, the floor lying directly
\* below every stack for ontop and above
positional(rel, a, b, w) ==
    /\ columnsOf(a, w) # {}
    /\ IF b = "floor"
       THEN \/ rel \in {"ontop", "inside"} /\ rowOf(a, w) = 0
            \/ rel = "above"
       ELSE /\ columnsOf(b, w) # {}
            /\ \/ /\ rel \in {"ontop", "inside"}
                  /\ colOf(a, w) = colOf(b, w) /\ rowOf(a, w) = rowOf(b, w) + 1
               \/ rel = "above" /\ colOf(a, w) = colOf(b, w) /\ rowOf(a, w) > rowOf(b, w)
               \/ rel = "under" /\ colOf(a, w) = colOf(b, w) /\ rowOf(a, w) < rowOf(b, w)
               \/ rel = "leftof" /\ colOf(a, w) < colOf(b, w)
               \/ rel = "rightof" /\ colOf(a, w) > colOf(b, w)
               \/ rel = "beside" /\ Abs(colOf(a, w) - colOf(b, w)) = 1

\* b witnesses a: the physics predicate accepts (relation, a, b) and the
\* relation holds between them in the stacks
witnesses(rel, a, b, w) ==
    validate(rel, a, b) = undefined /\ positional(rel, a, b, w)

\* "take a <RelativeObject>"
takesRelative == inp.tag = "TakeCommand" /\ inp.entity.quantifier = "any"
                 /\ inp.entity.object.tag = "RelativeObject"

\* C18: with the location quantifier the or any, a RelativeObject resolves
\* to the ids a of A = resolve(object) for which some b of
\* B = resolve(location.entity.object) is legal for (relation, a, b) and
\* stands in the relation to a in the stacks, each once.
C18_SomeWitness ==
    ( /\ pc = "done" /\ takesRelative
      /\ inp.entity.object.location.entity.quantifier \in {"the", "any"} ) =>
        LET obj == inp.entity.object
            B == resolved(obj.location.entity.object, world)
            retained == SelectSeq(resolved(obj.object, world), LAMBDA a :
                            \E j \in DOMAIN B :
                                witnesses(obj.location.relation, a, B[j], world))
        IN  IF retained = <<>>
            THEN IsThrow(out)
            ELSE /\ ~IsThrow(out)
                 /\ heldIds(out.value) = retained

\* "take an object on the floor": the bottom object of every stack
C18_Witness ==
    /\ pc = "done" /\ takesRelative /\ world.holding = <<>>
    /\ inp.entity.object.object = SimpleObject("anyform", NULL, NULL)
    /\ inp.entity.object.location = Location("ontop", Entity("the", SimpleObject("floor", NULL, NULL)))
    /\ ~IsThrow(out)
    /\ Range(heldIds(out.value)) = {"LargeWhiteBall", "LargeBlueTable", "LargeYellowBox"}

\* C19: with the location quantifier all, a RelativeObject resolves to the
\* ids a of A that every b of B witnesses, for each of the seven relations.
C19_EveryWitness ==
    ( /\ pc = "done" /\ takesRelative
      /\ inp.entity.object.location.entity.quantifier = "all" ) =>
        LET obj == inp.entity.object
            B == resolved(obj.location.entity.object, world)
            retained == SelectSeq(resolved(obj.object, world), LAMBDA a :
                            \A j \in DOMAIN B :
                                witnesses(obj.location.relation, a, B[j], world))
        IN  IF retained = <<>>
            THEN IsThrow(out)
            ELSE /\ ~IsThrow(out)
                 /\ heldIds(out.value) = retained

\* ------------------------------------------------------------------------
\* Properties of the drivers interpret and plan (SpecShrdlite)
\* ------------------------------------------------------------------------

\* The parses whose interpretCommand does not raise, each with its DNF
interpretable(parses, w) ==
    LET good == SelectSeq(parses, LAMBDA p : ~IsThrow(interpretCommand(p.parse, w)))
    IN  [k \in DOMAIN good |->
            [good[k] EXCEPT !.interpretation = interpretCommand(good[k].parse, w).value]]

\* The interpretations whose makePlan did not raise, in their order
plannable(interpretations, outcomes) ==
    LET good == SelectSeq([k \in DOMAIN interpretations |-> k],
                          LAMBDA k : ~IsThrow(outcomes[k]))
    IN  [i \in DOMAIN good |-> interpretations[good[i]]]

\* C20: interpret returns exactly the parses whose interpretCommand did not
\* raise, each with its own DNF, and raises only when every parse failed;
\* plan has called makePlan for every interpretation, returns exactly those
\* for which it did not raise and raises only when every call raised.
C20_OneFailureDoesNotAbort ==
    /\ pc # "parsed" =>
          IF interpretable(inp.parses, world) = <<>>
          THEN pc = "failed" /\ IsThrow(inp.interpreted)
          ELSE pc # "failed" /\ inp.interpreted = Return(interpretable(inp.parses, world))
    /\ pc = "planned" =>
          /\ Len(inp.outcomes) = Len(inp.interpreted.value)
          /\ IF \A k \in DOMAIN inp.outcomes : IsThrow(inp.outcomes[k])
             THEN IsThrow(inp.result)
             ELSE /\ ~IsThrow(inp.result)
                  /\ [i \in DOMAIN inp.result.value |->
                         [inp.result.value[i] EXCEPT !.plan = <<>>]]
                       = [i \in DOMAIN plannable(inp.interpreted.value, inp.outcomes) |->
                            [plannable(inp.interpreted.value, inp.outcomes)[i]
                                EXCEPT !.plan = <<>>]]

\* Of two parses that were both interpreted, the search
\* for the first has succeeded and the search for the second was cut short:
\* plan returns the first alone
C20_Witness ==
    /\ pc = "planned"
    /\ Len(inp.parses) = 2 /\ Len(inp.interpreted.value) = 2
    /\ ~IsThrow(inp.outcomes[1]) /\ IsThrow(inp.outcomes[2])
    /\ ~IsThrow(inp.result) /\ Len(inp.result.value) = 1

\* C21: when every parse fails, the error interpret raises is the distinct
\* messages of the parses joined with " ; ", each different message once.
C21_EachMessageOnce ==
    pc = "failed" =>
        LET messages == {interpretCommand(inp.parses[k].parse, world).throw :
                            k \in DOMAIN inp.parses}
        IN  /\ IsThrow(inp.interpreted)
            /\ \E order \in [1..Cardinality(messages) -> messages] :
                  /\ \A m \in messages : \E i \in DOMAIN order : order[i] = m
                  /\ inp.interpreted.throw = join(order, " ; ")

\* C22: the plan attached to a parse is the one-element sentinel
\* "The interpretation is already true!" exactly when the start world
\* satisfies the DNF, and then the search has returned success with an empty
\* path and cost 0; otherwise every element of the plan is one of l, r, p, d.
C22_SentinelIffAlreadyTrue ==
    /\ (pc = "returned" /\ srch.status = "success") =>
          (goalTest(intp, world) <=> (srch.path = <<>> /\ srch.cost = 0))
    /\ (pc = "returned" /\ goalTest(intp, world) /\ srch.status # "timeout") =>
          srch.status = "success"
    /\ (pc = "planned" /\ ~IsThrow(inp.result)) =>
          \A i \in DOMAIN inp.result.value :
             LET result == inp.result.value[i]
             IN  IF goalTest(result.interpretation, world)
                 THEN result.plan = <<"The interpretation is already true!">>
                 ELSE /\ result.plan # <<>>
                      /\ \A k \in DOMAIN result.plan :
                            result.plan[k] \in {"l", "r", "p", "d"}

\* plan has returned two parses: the first holds in the start world and
\* carries the sentinel, the second needs actions
C22_Witness ==
    /\ pc = "planned" /\ ~IsThrow(inp.result)
    /\ Len(inp.result.value) = 2
    /\ goalTest(inp.result.value[1].interpretation, world)
    /\ inp.result.value[1].plan = <<"The interpretation is already true!">>
    /\ ~goalTest(inp.result.value[2].interpretation, world)
    /\ Len(inp.result.value[2].plan) > 1

\* C23: a search that ends with status timeout or failure returns an empty
\* path and cost -1, nothing follows it but makePlan's raise, and makePlan
\* raises for each of the two, so that no list of actions comes out of it.
C23_NoPartialPlan ==
    (pc \in {"returned", "done"} /\ srch.status \in {"timeout", "failure"}) =>
        /\ srch.path = <<>>
        /\ srch.cost = -1
        /\ pc = "done" =>
              /\ IsThrow(out)
              /\ out.throw = IF srch.status = "failure"
                             THEN "No path exists from start to goal"
                             ELSE "TIMEOUT! Visited " \o ToString(srch.visited) \o " nodes"

\* The frontier has run empty before any goal state was dequeued and
\* makePlan has raised
C23_Witness ==
    /\ pc = "done"
    /\ srch.status = "failure"
    /\ srch.visited > 1
    /\ IsThrow(out)

\* C24: in the loop of aStarSearch the astarTable entry of a node never
\* increases (it is the lowest f the node was ever enqueued with), also for
\* a node whose entry is 0 because its heuristic is 0.
C24_BestFNeverIncreases ==
    [][(pc = "search" /\ pc' = "search") =>
          \A k \in DOMAIN srch.astarTable :
             /\ k \in DOMAIN srch'.astarTable
             /\ srch'.astarTable[k] <= srch.astarTable[k]]_vars

\* A literal is satisfied in the state w: holding(a) when the arm holds a,
\* R(a, b) when R holds between a and b in the stacks
satisfied(lit, w) ==
    IF Len(lit.args) = 1
    THEN lit.relation = "holding" /\ w.holding = <<lit.args[1]>>
    ELSE positional(lit.relation, lit.args[1], lit.args[2], w)

\* C25: goalTest is true of a state exactly when some conjunction of the DNF
\* has every literal satisfied in it, a literal with a held argument never
\* being satisfied; no state satisfies the empty DNF.
C25_GoalTestIsDNF ==
    pc = "graph" =>
        /\ goalTest(intp, world) <=>
              \E i \in DOMAIN intp : \A k \in DOMAIN intp[i] : satisfied(intp[i][k], world)
        /\ \A i \in DOMAIN intp : \A k \in DOMAIN intp[i] :
              (Len(intp[i][k].args) = 2 /\ world.holding # <<>>
                 /\ world.holding[1] \in Range(intp[i][k].args))
                 => ~isTrueLit(intp[i][k], world)
        /\ ~goalTest(<<>>, world)

\* The goal holds through one conjunction whose binary literals all hold in
\* the stacks while another conjunction fails on a literal about the held
\* object
C25_Witness ==
    /\ pc = "graph"
    /\ world \notin PlanWorlds
    /\ goalTest(intp, world)
    /\ world.holding # <<>>
    /\ \E i \in DOMAIN intp :
          /\ intp[i] # <<>>
          /\ \A k \in DOMAIN intp[i] :
                Len(intp[i][k].args) = 2 /\ isTrueLit(intp[i][k], world)
    /\ \E i \in DOMAIN intp : \E k \in DOMAIN intp[i] :
          /\ world.holding[1] \in Range(intp[i][k].args)
          /\ Len(intp[i][k].args) = 2
          /\ ~isTrueConj(intp[i], world)

\* C26: the ids of the nodes built for two states are equal exactly when the
\* states have the same arm column, the same held object and the same stacks,
\* whatever strings the objects' ids are.
C26_SameIdSameConfiguration ==
    pc = "nodes" =>
        (out.first.id = out.second.id
            <=> /\ inp.first.arm = inp.second.arm
                /\ inp.first.holding = inp.second.holding
                /\ inp.first.stacks = inp.second.stacks)

\* C27: when the deadline is never reached every search eventually returns,
\* with failure exactly when no state satisfying the DNF can be reached from
\* the start world along l/r/p/d edges and with success otherwise.
C27_SearchReturns ==
    /\ <>(pc = "returned")
    /\ [](pc = "returned" =>
            /\ srch.status \in {"success", "failure"}
            /\ srch.status = "failure" <=> ShortestPlan(intp, world) = Infinity)

\* A search has emptied the frontier after visiting several nodes, none of
\* the reachable states satisfying the DNF
C27_Witness ==
    /\ pc = "returned"
    /\ srch.status = "failure"
    /\ srch.visited > 1
    /\ ShortestPlan(intp, world) = Infinity

\* Every stacked object of the state w may rest on what is directly below
\* it, the floor below the lowest
legalStacks(w) ==
    \A c \in DOMAIN w.stacks : \A r \in DOMAIN w.stacks[c] :
        isValidDrop(objects[w.stacks[c][r]],
                    IF r = 1 THEN floorObject ELSE objects[w.stacks[c][r - 1]])

\* C28: the start worlds being legal, every stacked object of every state
\* reached along l/r/p/d edges may rest on what is directly below it.
C28_StacksStayLegal ==
    /\ \A w \in PlanWorlds : legalStacks(w)
    /\ pc = "graph" => legalStacks(world)

\* The arm has built a stack of three that no start world has: the ball in
\* the box on the table
C28_Witness ==
    /\ pc = "graph"
    /\ world.holding = <<>>
    /\ \E c \in DOMAIN world.stacks :
          world.stacks[c] = <<"LargeBlueTable", "SmallBlueBox", "SmallBlackBall">>

\* The action that undoes an action
inverse(action) ==
    CASE action = "l" -> "r"
      [] action = "r" -> "l"
      [] action = "p" -> "d"
      [] action = "d" -> "p"

\* C29: from every state reached from a legal start world, the state behind
\* an edge has the edge of the inverse action, and that edge leads back to
\* exactly the state the first edge left (same state, same node id, the arm
\* over the same column).
C29_EveryEdgeReversible ==
    pc = "graph" =>
        \A i \in DOMAIN Actions :
           neighbor(world, Actions[i]) # <<>> =>
              LET next == neighbor(world, Actions[i])[1]
                  back == neighbor(next, inverse(Actions[i]))
              IN  /\ back = <<world>>
                  /\ nodeId(back[1]) = nodeId(world)
                  /\ Actions[i] \in {"p", "d"} => next.arm = world.arm

\* Away from the start worlds the arm is empty over a stack of two or more:
\* it can pick the top object and drop it again on the object below
C29_Witness ==
    /\ pc = "graph"
    /\ world \notin PlanWorlds
    /\ world.holding = <<>>
    /\ Len(world.stacks[world.arm + 1]) >= 2
    /\ neighbor(world, "p") # <<>>
    /\ neighbor(neighbor(world, "p")[1], "d") = <<world>>

\* C30: every DNF that interpretCommand returns has at least one conjunction
\* and every conjunction of it has at least one literal.
C30_NoVacuousGoal ==
    (pc = "done" /\ ~IsThrow(out)) =>
        /\ Len(out.value) >= 1
        /\ \A i \in DOMAIN out.value : Len(out.value[i]) >= 1

====
